---- MODULE Spec2Model ----
(***************************************************************************)
(* ffwx (diFF With conteXt): a model of src/main.rs.                       *)
(*                                                                         *)
(* Two state machines share this module.                                   *)
(*   Spec / FairSpec : one run of the command line tool: `diff` reads the  *)
(*     two files, runs compute_diff (outer loop, inner look-ahead loop,    *)
(*     classification of the buffers), writes out.ffwx with write_output;  *)
(*     `apply` is then invoked on the written file.                        *)
(*   CtxSpec : the LineCtx methods (new, push, compare, before_str,        *)
(*     after_str) driven the way the unit tests drive them.                *)
(* Vec indices are 0-based as in the source; v[k+1] is the TLA+ element.   *)
(* Option<T> is a sequence of length 0 (None) or 1 (Some).                 *)
(***************************************************************************)
EXTENDS Naturals, Sequences, FiniteSets

VARIABLES
    source,      \* Vec<String>: lines of the source file
    modified,    \* Vec<String>: lines of the modified file
    revert,      \* DiffArgs::revert (-R)
    pc,          \* position of the run in main / compute_diff
    i, j,        \* compute_diff: outer loop cursors
    x, y,        \* compute_diff: inner loop look-ahead offsets
    src_buf,     \* compute_diff: buffered source lines
    mod_buf,     \* compute_diff: buffered modified lines
    lines,       \* compute_diff: the Vec<DiffLine> being built / returned
    out,         \* records pushed to the buffer by write_output, in order
    applied,     \* outcome of the apply command
    tpc,         \* LineCtx harness: position
    tv,          \* LineCtx harness: the line vector handed to push
    ti,          \* LineCtx harness: index handed to push
    tamount,     \* LineCtx harness: amount handed to push
    self,        \* LineCtx harness: the window under test
    other,       \* LineCtx harness: the window it is compared with
    cmp,         \* LineCtx harness: result of self.compare(&other)
    bstr, astr   \* LineCtx harness: self.before_str(), self.after_str()

vars == <<source, modified, revert, pc, i, j, x, y, src_buf, mod_buf, lines,
          out, applied, tpc, tv, ti, tamount, self, other, cmp, bstr, astr>>

diffVars == <<source, modified, revert, pc, i, j, x, y, src_buf, mod_buf,
              lines, out, applied>>
ctxVars == <<tpc, tv, ti, tamount, self, other, cmp, bstr, astr>>

(***************************************************************************)
(* Bounds of the model.                                                    *)
(***************************************************************************)
MaxLen == 3
MaxAmount == 2

Lines == {"a", "b", "c"}

SeqsUpTo(n) == UNION {[1..k -> Lines] : k \in 0..n}

(***************************************************************************)
(* Constants of the program.                                               *)
(***************************************************************************)
CTX_NL == "\n"

(***************************************************************************)
(* Vec helpers.                                                            *)
(***************************************************************************)
None == <<>>
Some(e) == <<e>>

get(v, k) == IF k < Len(v) THEN Some(v[k + 1]) ELSE None

pop(v) == IF v = <<>> THEN v ELSE SubSeq(v, 1, Len(v) - 1)

RECURSIVE join(_, _)
join(v, sep) ==
    IF v = <<>> THEN ""
    ELSE IF Len(v) = 1 THEN v[1]
    ELSE v[1] \o sep \o join(Tail(v), sep)

(***************************************************************************)
(* DiffKind, LineCtx, DiffLine.                                            *)
(***************************************************************************)
to_header(kind) ==
    CASE kind = "Added" -> "+ "
      [] kind = "Removed" -> "- "
      [] kind = "Changed" -> "~ "

LineCtx_new == [before |-> <<>>, after |-> <<>>]

before_of_strict(v, k, n) == IF k > n + 1 THEN get(v, k - n - 1) ELSE None

before_of(v, k, n) == IF k >= n + 1 THEN get(v, k - n - 1) ELSE None

after_of(v, k, n) == IF k + n + 1 < Len(v) THEN get(v, k + n + 1) ELSE None

RECURSIVE push_from(_, _, _, _, _)
push_from(c, v, k, n, amount) ==
    IF n >= amount THEN c
    ELSE LET b == before_of(v, k, n)
             a == after_of(v, k, n)
             c2 == [before |-> c.before \o b, after |-> c.after \o a]
         IN push_from(c2, v, k, n + 1, amount)

push(c, v, k, amount) == push_from(c, v, k, 0, amount)

compare(c, d) ==
    IF Len(c.after) # Len(d.after) \/ Len(c.before) # Len(d.before)
    THEN FALSE
    ELSE \A k \in 1..Len(c.after) : c.after[k] = d.after[k]

before_str(c) ==
    LET end == IF c.before = <<>> THEN "" ELSE CTX_NL
    IN join(c.before, CTX_NL) \o end

after_str(c) ==
    LET start == IF c.before = <<>> THEN "" ELSE CTX_NL
    IN start \o join(c.after, CTX_NL)

DiffLine_new(kind, value) == [kind |-> kind, value |-> value, ctx |-> LineCtx_new]

added(value) == DiffLine_new("Added", value)
removed(value) == DiffLine_new("Removed", value)
changed(value) == DiffLine_new("Changed", value)

(***************************************************************************)
(* compute_diff.                                                           *)
(***************************************************************************)
outer_exit(S, M, a, b) == a >= Len(S) /\ b >= Len(M)

line_neq(s, m) == s # m

line_eq(s, m) == s = m

on_equal_stuck(a, b) == <<a, b>>

on_equal(a, b) == <<a + 1, b + 1>>

is_changed_strict(sb, mb) == Len(mb) > Len(sb) /\ mb # <<>>

is_changed(sb, mb) == Len(mb) = Len(sb) /\ mb # <<>>

\* for str in buf { lines.push(DiffLine::changed / added / removed (str)) }
each_changed(buf) == [k \in 1..Len(buf) |-> changed(buf[k])]
each_added(buf) == [k \in 1..Len(buf) |-> added(buf[k])]
each_removed(buf) == [k \in 1..Len(buf) |-> removed(buf[k])]

\* main, Command::Diff: the two files are read and compute_diff is entered.
MainDiff ==
    /\ pc = "main"
    /\ pc' = "outer"
    /\ i' = 0 /\ j' = 0
    /\ lines' = <<>>
    /\ UNCHANGED <<source, modified, revert, x, y, src_buf, mod_buf, out, applied>>
    /\ UNCHANGED ctxVars

\* One pass of the outer loop, up to the entry of the inner loop.
OuterStep ==
    /\ pc = "outer"
    /\ LET sline == get(source, i)
           mline == get(modified, j)
       IN IF outer_exit(source, modified, i, j)
          THEN /\ pc' = "computed"
               /\ UNCHANGED <<i, j, x, y, src_buf, mod_buf, lines>>
          ELSE IF sline # None /\ mline # None
          THEN IF line_eq(sline[1], mline[1])
               THEN /\ i' = on_equal(i, j)[1]
                    /\ j' = on_equal(i, j)[2]
                    /\ UNCHANGED <<pc, x, y, src_buf, mod_buf, lines>>
               ELSE /\ src_buf' = <<sline[1]>>
                    /\ mod_buf' = <<mline[1]>>
                    /\ x' = 1 /\ y' = 1
                    /\ pc' = "inner"
                    /\ UNCHANGED <<i, j, lines>>
          ELSE /\ lines' = IF mline # None THEN Append(lines, added(mline[1]))
                           ELSE IF sline # None THEN Append(lines, removed(sline[1]))
                           ELSE lines
               /\ i' = i + 1 /\ j' = j + 1
               /\ UNCHANGED <<pc, x, y, src_buf, mod_buf>>
    /\ UNCHANGED <<source, modified, revert, out, applied>>
    /\ UNCHANGED ctxVars

\* One pass of the inner look-ahead loop.
InnerStep ==
    /\ pc = "inner"
    /\ LET s == source[i + 1]
           m == modified[j + 1]
           ns == get(source, i + x)
           nm == get(modified, j + y)
           go(sb, mb) == /\ src_buf' = sb /\ mod_buf' = mb
                         /\ x' = x + 1 /\ y' = y + 1
                         /\ UNCHANGED pc
           brk(sb, mb) == /\ src_buf' = sb /\ mod_buf' = mb
                          /\ pc' = "emit"
                          /\ UNCHANGED <<x, y>>
       IN IF ns # None /\ nm # None
          THEN IF ns[1] = nm[1] THEN brk(src_buf, mod_buf)
               ELSE LET sb == Append(src_buf, ns[1])
                        mb == Append(mod_buf, nm[1])
                    IN IF m = ns[1] THEN brk(pop(sb), pop(pop(mb)))
                       ELSE IF s = nm[1] THEN brk(pop(pop(sb)), pop(mb))
                       ELSE go(sb, mb)
          ELSE IF ns # None
          THEN IF m = ns[1] THEN brk(src_buf, mod_buf)
               ELSE go(Append(src_buf, ns[1]), mod_buf)
          ELSE IF nm # None
          THEN IF s = nm[1] THEN brk(src_buf, mod_buf)
               ELSE go(src_buf, Append(mod_buf, nm[1]))
          ELSE brk(src_buf, mod_buf)
    /\ UNCHANGED <<source, modified, revert, i, j, lines, out, applied>>
    /\ UNCHANGED ctxVars

\* Classification of the buffers after the inner loop, and the end of the
\* outer pass (i += 1; j += 1).
Emit ==
    /\ pc = "emit"
    /\ IF is_changed(src_buf, mod_buf)
       THEN /\ lines' = lines \o each_changed(mod_buf)
            /\ i' = i + 1 /\ j' = j + 1
       ELSE IF Len(mod_buf) > Len(src_buf)
       THEN /\ lines' = lines \o each_added(mod_buf)
            /\ i' = i + 1 /\ j' = j + Len(mod_buf) + 1
       ELSE /\ lines' = lines \o each_removed(src_buf)
            /\ i' = i + Len(src_buf) + 1 /\ j' = j + 1
    /\ pc' = "outer"
    /\ UNCHANGED <<source, modified, revert, x, y, src_buf, mod_buf, out, applied>>
    /\ UNCHANGED ctxVars

\* write_output: one record per DiffLine, pushed to the buffer in order.
record_of(line) ==
    before_str(line.ctx) \o to_header(line.kind) \o line.value
        \o after_str(line.ctx) \o "\n"

write_output(ls) == [k \in 1..Len(ls) |-> record_of(ls[k])]

\* main, Command::Diff after compute_diff: out.ffwx is written.
MainWrite ==
    /\ pc = "computed"
    /\ out' = write_output(lines)
    /\ pc' = "written"
    /\ UNCHANGED <<source, modified, revert, i, j, x, y, src_buf, mod_buf, lines, applied>>
    /\ UNCHANGED ctxVars

\* main, Command::Apply: todo!("Apply") panics.
MainApply ==
    /\ pc = "written"
    /\ applied' = [panicked |-> TRUE, result |-> <<>>]
    /\ pc' = "applied"
    /\ UNCHANGED <<source, modified, revert, i, j, x, y, src_buf, mod_buf, lines, out>>
    /\ UNCHANGED ctxVars

NotRun == [panicked |-> FALSE, result |-> <<>>]

CtxIdle ==
    /\ tpc = "off" /\ tv = <<>> /\ ti = 0 /\ tamount = 0
    /\ self = LineCtx_new /\ other = LineCtx_new
    /\ cmp = FALSE /\ bstr = "" /\ astr = ""

DiffInit ==
    /\ source \in SeqsUpTo(MaxLen)
    /\ modified \in SeqsUpTo(MaxLen)
    /\ revert \in BOOLEAN
    /\ pc = "main"
    /\ i = 0 /\ j = 0 /\ x = 0 /\ y = 0
    /\ src_buf = <<>> /\ mod_buf = <<>> /\ lines = <<>>
    /\ out = <<>>
    /\ applied = NotRun

Init == DiffInit /\ CtxIdle

Next == MainDiff \/ OuterStep \/ InnerStep \/ Emit \/ MainWrite \/ MainApply

Spec == Init /\ [][Next]_vars

\* The run is a single sequential thread: whenever a step is possible it is
\* eventually taken.
FairSpec == Init /\ [][Next]_vars /\ WF_vars(Next)

(***************************************************************************)
(* The LineCtx harness: a fresh window is filled by push, then rendered,   *)
(* or compared with a second window filled from another vector.            *)
(***************************************************************************)
DiffIdle ==
    /\ source = <<>> /\ modified = <<>> /\ revert = FALSE
    /\ pc = "off"
    /\ i = 0 /\ j = 0 /\ x = 0 /\ y = 0
    /\ src_buf = <<>> /\ mod_buf = <<>> /\ lines = <<>>
    /\ out = <<>>
    /\ applied = NotRun

CtxInit ==
    /\ DiffIdle
    /\ tpc = "new"
    /\ tv \in SeqsUpTo(MaxLen)
    /\ ti = 0 /\ tamount = 0
    /\ self = LineCtx_new /\ other = LineCtx_new
    /\ cmp = FALSE /\ bstr = "" /\ astr = ""

\* l1.ctx.push(&lines, i, amount) on the window of a new DiffLine.
CtxPush ==
    /\ tpc = "new"
    /\ \E k \in 0..MaxLen, n \in 0..MaxAmount :
          /\ self' = push(self, tv, k, n)
          /\ ti' = k /\ tamount' = n
    /\ tpc' = "pushed"
    /\ UNCHANGED <<tv, other, cmp, bstr, astr>>
    /\ UNCHANGED diffVars

\* A second window, filled from any vector.
CtxPushOther ==
    /\ tpc = "pushed"
    /\ \E w \in SeqsUpTo(MaxLen), k \in 0..MaxLen, n \in 0..MaxAmount :
          other' = push(other, w, k, n)
    /\ tpc' = "both"
    /\ UNCHANGED <<tv, ti, tamount, self, cmp, bstr, astr>>
    /\ UNCHANGED diffVars

\* self.compare(&other)
CtxCompare ==
    /\ tpc = "both"
    /\ cmp' = compare(self, other)
    /\ tpc' = "compared"
    /\ UNCHANGED <<tv, ti, tamount, self, other, bstr, astr>>
    /\ UNCHANGED diffVars

\* self.before_str(), self.after_str(), as write_output calls them.
CtxRender ==
    /\ tpc = "pushed"
    /\ bstr' = before_str(self)
    /\ astr' = after_str(self)
    /\ tpc' = "rendered"
    /\ UNCHANGED <<tv, ti, tamount, self, other, cmp>>
    /\ UNCHANGED diffVars

CtxNext == CtxPush \/ CtxPushOther \/ CtxCompare \/ CtxRender

CtxSpec == CtxInit /\ [][CtxNext]_vars

(***************************************************************************)
(* Vocabulary of the properties.                                           *)
(***************************************************************************)
Returned == pc \in {"computed", "written", "applied"}

\* extract(sequence, index): the radius-1 window of a fresh LineCtx.
extract(v, k) == push(LineCtx_new, v, k, 1)

Reverse(v) == [k \in 1..Len(v) |-> v[Len(v) + 1 - k]]

Count(v, kinds) == Cardinality({k \in 1..Len(v) : v[k].kind \in kinds})

\* Length of the longest common subsequence of S and M (the classical table).
LCS(S, M) ==
    LET L[a \in 0..Len(S), b \in 0..Len(M)] ==
            IF a = 0 \/ b = 0 THEN 0
            ELSE IF S[a] = M[b] THEN L[a - 1, b - 1] + 1
            ELSE IF L[a - 1, b] >= L[a, b - 1] THEN L[a - 1, b] ELSE L[a, b - 1]
    IN L[Len(S), Len(M)]

\* modified is source with exactly the line at 0-based index k replaced.
ReplacedAt(k) ==
    /\ Len(modified) = Len(source)
    /\ k < Len(source)
    /\ \A n \in 1..Len(source) : (source[n] # modified[n]) <=> (n = k + 1)

Radius1(c) == Len(c.before) <= 1 /\ Len(c.after) <= 1

(***************************************************************************)
(* C1. Round trip: apply(source, diff(source, modified)) returns exactly   *)
(* modified.                                                               *)
(***************************************************************************)
RoundTrip ==
    pc = "applied" => (~applied.panicked /\ applied.result = modified)

(***************************************************************************)
(* C2. Identity: compute_diff(F, F) returns an empty script for every F,   *)
(* the empty one included.                                                 *)
(***************************************************************************)
Identity ==
    (Returned /\ source = modified) => lines = <<>>

IdentityWitness ==
    pc = "computed" /\ source = modified /\ Len(source) >= 2

(***************************************************************************)
(* C3. Minimal edit script: with L the LCS length, the returned script has *)
(* exactly m - L entries Removed or Changed and n - L entries Added or     *)
(* Changed.                                                                *)
(***************************************************************************)
MinimalScript ==
    Returned =>
        LET L == LCS(source, modified)
        IN /\ Count(lines, {"Removed", "Changed"}) = Len(source) - L
           /\ Count(lines, {"Added", "Changed"}) = Len(modified) - L

(***************************************************************************)
(* C4. Merge soundness: when modified is source with exactly one line      *)
(* replaced by a different one, the script is exactly one Changed entry    *)
(* whose value is the new line.                                            *)
(***************************************************************************)
MergeSound ==
    Returned =>
        \A k \in 0..MaxLen :
            ReplacedAt(k) =>
                /\ Len(lines) = 1
                /\ lines[1].kind = "Changed"
                /\ lines[1].value = modified[k + 1]

MergeSoundWitness ==
    /\ pc = "computed"
    /\ Len(source) >= 3
    /\ ReplacedAt(1)
    /\ Len(lines) = 1

(***************************************************************************)
(* C5. Every emitted entry carries the context window of its line: a       *)
(* Removed entry that of a source line with its value, an Added or Changed *)
(* entry that of a modified line with its value; [a,b] -> [a,b,c] gives    *)
(* one Added entry, value c, context {before: b, after: absent}.           *)
(***************************************************************************)
ContextCarried ==
    Returned =>
        /\ \A e \in 1..Len(lines) :
              LET v == IF lines[e].kind = "Removed" THEN source ELSE modified
              IN \E k \in 0..(Len(v) - 1) :
                    /\ v[k + 1] = lines[e].value
                    /\ lines[e].ctx = extract(v, k)
        /\ (source = <<"a", "b">> /\ modified = <<"a", "b", "c">>) =>
              lines = <<[kind |-> "Added", value |-> "c",
                         ctx |-> [before |-> <<"b">>, after |-> <<>>]]>>

(***************************************************************************)
(* C6. Context symmetry: push(seq, i, 1) into a fresh window, 0 <= i < n,  *)
(* gives before = [seq[i-1]] if i > 0 and empty otherwise, and             *)
(* after = [seq[i+1]] if i+1 < n and empty otherwise.                      *)
(***************************************************************************)
ContextSymmetry ==
    (tpc = "pushed" /\ tamount = 1 /\ ti < Len(tv)) =>
        /\ self.before = (IF ti > 0 THEN <<tv[ti]>> ELSE <<>>)
        /\ self.after = (IF ti + 1 < Len(tv) THEN <<tv[ti + 2]>> ELSE <<>>)

ContextSymmetryWitness ==
    /\ tpc = "pushed" /\ tamount = 1
    /\ Len(tv) >= 2 /\ ti = Len(tv) - 1
    /\ self.before = <<tv[ti]>> /\ self.after = <<>>

(***************************************************************************)
(* C7. Revert inverts presentation order: with revert set, the records     *)
(* written are those written without it (write_output of the script        *)
(* compute_diff returned), in exactly the reverse order.                   *)
(***************************************************************************)
RevertReverses ==
    (pc = "written" /\ revert) => out = Reverse(write_output(lines))

(***************************************************************************)
(* C8. Totality: on any two line sequences, empty ones included,           *)
(* compute_diff leaves both loops and returns, with both cursors past the  *)
(* end of their sequences.                                                 *)
(***************************************************************************)
Totality ==
    <>(pc = "computed" /\ i >= Len(source) /\ j >= Len(modified))

TotalityWitness ==
    /\ pc = "computed"
    /\ x >= 2
    /\ lines # <<>>

(***************************************************************************)
(* C9. Window equality: compare(a, b) is true exactly when a.before equals *)
(* b.before and a.after equals b.after.                                    *)
(***************************************************************************)
WindowEquality ==
    tpc = "compared" =>
        (cmp <=> (self.before = other.before /\ self.after = other.after))

(***************************************************************************)
(* C10. Context rendering: before_str() is empty when the before side is   *)
(* absent, else the before line followed by the separator; after_str() is  *)
(* empty when the after side is absent, else the separator followed by the *)
(* after line, whatever the before side is.                                *)
(***************************************************************************)
ContextRendering ==
    (tpc = "rendered" /\ Radius1(self)) =>
        /\ bstr = (IF self.before = <<>> THEN "" ELSE self.before[1] \o CTX_NL)
        /\ astr = (IF self.after = <<>> THEN "" ELSE CTX_NL \o self.after[1])

====
